---- MODULE Spec2Model ----
(***************************************************************************)
(* AsviCare: the profile-scoped data-access module (services/db.ts), the   *)
(* application handlers that call it (App.tsx, views/*.tsx) and the        *)
(* offline cache with its pending-operation queue (services/cache.ts).     *)
(*                                                                         *)
(* Spec      : the data-access module over the hosted tables.              *)
(* SpecApp   : the application's handlers over the same tables.            *)
(* SpecQueue : the pending-operation queue and its drain runs.             *)
(* LiveQueue : SpecQueue with the fairness of the event loop.              *)
(* SpecDrain : drain runs with operations enqueued while they run.         *)
(* SpecProfile, SpecProvider : profile resolution (db.ts) and the React    *)
(*             profile provider (UserProfileContext.tsx).                  *)
(* SpecCache, SpecDash, SpecConfig : the cache entries, the dashboard      *)
(*             statistics and the choice of auth service.                  *)
(* SpecMock  : the in-memory mock auth client (App.tsx).                   *)
(* SpecReset : resetAllData over rows of both doctor modes.                *)
(***************************************************************************)
EXTENDS Integers, Sequences, FiniteSets, TLC

\* ------------------------------------------------------------------ bounds
\* Rows the hosted tables ever receive in one behaviour.
MaxRows == 1
\* Operations ever enqueued in one behaviour.
MaxOps == 2
\* Drain runs that can be in progress at the same time.
MaxRuns == 2
\* Profile resolutions followed within one session.
MaxResolutions == 4

\* --------------------------------------------------------------- universe
Users == {"u1", "u2"}
\* The account that signs in to the session under observation, and the
\* account of another clinic, at work in a session of its own (another
\* browser: there is no cross-session coordination).
Caller == "u1"
OtherTenant == "u2"
Clinics == {"c1", "c2"}
Modes == {"GP", "GYNO"}
Kinds == {"patients", "visits", "expenses", "appointments"}
\* undefined / null / SQL NULL
Absent == "absent"
RowIds == 1..MaxRows
\* a null row id (patient_id: form.patient_id || null)
NoId == 0
\* an empty start_time / end_time
NoTime == 0

\* user_profiles: one profile per auth identity, each in its own clinic.
Undefined == "undefined"

UserProfiles ==
  { [present |-> TRUE, id |-> "p1", clinic_id |-> "c1", auth_user_id |-> "u1", doctortype |-> Absent],
    [present |-> TRUE, id |-> "p2", clinic_id |-> "c2", auth_user_id |-> "u2", doctortype |-> Absent] }

ProfileOf(u) == CHOOSE p \in UserProfiles : p.auth_user_id = u

\* A null / undefined profile argument.
NullProfile ==
  [present |-> FALSE, id |-> Absent, clinic_id |-> Absent, auth_user_id |-> Absent, doctortype |-> Absent]

\* A truthy value that carries none of the profile's fields except, when
\* given, doctortype: the string 'GP' passed in the profile position, or the
\* object { ...null, doctortype: mode }.
BareProfile(m) ==
  [present |-> TRUE, id |-> Absent, clinic_id |-> Absent, auth_user_id |-> Absent, doctortype |-> m]

VARIABLES
  rows,        \* the hosted tables: a set of rows, each tagged with its table
  nextRowId,   \* the next id the backend generates
  session,     \* signed-in user, resolved profile and resolution state
  online,      \* navigator.onLine
  last,        \* the last data-access call: arguments, outcome and effect
  pendingOps,  \* localStorage 'clinictrack_pending_operations'
  runs,        \* the syncPendingOperations runs in progress
  nextOpId,    \* distinguishes the ids addPendingOperation generates
  hist,        \* per queued operation: attempts made, warnings, removals
  localStorage, \* the browser's localStorage: item key -> item text
  now,         \* Date.now()
  got,         \* the last cache.get: key, what it returned, when
  latestSet,   \* per cache key: the arguments and time of the latest set
  ledger,      \* the patients, visits and expenses tables as the dashboard reads them
  app,         \* the lists App holds: whether loaded, and up to which row
  stats,       \* the result of the last getDashboardStats
  conf,        \* the build's environment, who is signed in, the last operation
  prov,        \* UserProfileProvider: its state, globalUserProfile, fetches in flight
  mock         \* mockAuth: the registered users, the current session, the last call

dbVars == <<rows, nextRowId, session, last>>
queueVars == <<pendingOps, runs, nextOpId, hist>>
cacheVars == <<localStorage, now, got, latestSet>>
dashVars == <<ledger, app, stats>>
sideVars == <<cacheVars, dashVars, conf, prov, mock>>
vars == <<rows, nextRowId, session, online, last, pendingOps, runs, nextOpId, hist, sideVars>>

\* ================================================================ backend
\* The hosted tables as the data-access module sees them through its REST
\* client: filters, insert, update, delete, upsert.  Row-level security is
\* not part of the model: the module's scoping is specified "independent
\* of (and in addition to)" it.

Table(T, kind) == {r \in T : r.kind = kind}

\* NOT NULL columns and the patient foreign key of visits and appointments.
InsertAllowed(T, row) ==
  /\ row.user_id # Absent
  /\ row.doctortype # Absent
  /\ row.kind \in {"visits", "appointments"} =>
        \E p \in Table(T, "patients") : p.id = row.patient_id

\* ON DELETE CASCADE from patients to visits and appointments.
CascadeDelete(T, gone) ==
  LET ids == {r.id : r \in {g \in gone : g.kind = "patients"}}
  IN {r \in T \ gone :
        ~(r.kind \in {"visits", "appointments"} /\ r.patient_id \in ids)}

\* .update(updates): the columns named in the patch are overwritten.
ApplyUpdates(r, updates) ==
  [r EXCEPT !.clinic_id = IF updates.clinic_id = Absent THEN @ ELSE updates.clinic_id,
            !.doctortype = IF updates.doctortype = Absent THEN @ ELSE updates.doctortype]

\* What a data-access call hands back to the model: its outcome, the tables
\* afterwards, the rows returned to the caller, the rows it stored, the rows
\* (as they were) it overwrote or deleted, and the backend requests issued.
Result(o, T, ret, st, ch, n) ==
  [outcome |-> o, rows |-> T, returned |-> ret, stored |-> st, changed |-> ch, requests |-> n]

Throw(o, T, n) == Result(o, T, {}, {}, {}, n)


\* ============================================================ services/db.ts
\* Every function takes the tables T and net (TRUE when a backend request
\* can reach the backend; a request made while offline comes back with an
\* error, which the function throws).

NewRow_DefaultMode(kind, newId, payload, userId, clinicId) ==
  [id |-> newId, kind |-> kind, user_id |-> userId, clinic_id |-> clinicId,
   doctortype |-> "GP",
   patient_id |-> IF kind \in {"visits", "appointments"} THEN payload.patient_id ELSE NoId]

\* A row as an insert builds it from a payload spread and the stamped columns.
NewRow(kind, newId, payload, userId, clinicId) ==
  [id |-> newId, kind |-> kind, user_id |-> userId, clinic_id |-> clinicId,
   doctortype |-> payload.doctortype,
   patient_id |-> IF kind \in {"visits", "appointments"} THEN payload.patient_id ELSE NoId]

\* .insert(row) [.select().single()]
Insert(T, net, row, returning) ==
  IF ~net \/ ~InsertAllowed(T, row) THEN Throw("UpstreamFailure", T, 1)
  ELSE Result("ok", T \cup {row}, IF returning THEN {row} ELSE {}, {row}, {}, 1)

\* .select('*').eq(...)...  : the rows of one table that pass the filters.
Query(T, kind, userId, clinicId, mode) ==
  {r \in Table(T, kind) :
      /\ r.user_id = userId
      /\ clinicId # Absent => r.clinic_id = clinicId
      /\ mode # Absent => r.doctortype = mode}

Select(T, net, matched) ==
  IF ~net THEN Throw("UpstreamFailure", T, 1)
  ELSE Result("ok", T, matched, {}, {}, 1)

\* .update(updates).eq('id', id).eq('user_id', userId).select().single()
Update(T, net, kind, id, updates, userId) ==
  LET matched == {r \in Table(T, kind) : r.id = id /\ r.user_id = userId}
      after == {ApplyUpdates(r, updates) : r \in matched}
  IN IF ~net \/ matched = {} THEN Throw("UpstreamFailure", T, 1)
     ELSE Result("ok", (T \ matched) \cup after, after, {}, matched, 1)

\* .delete().eq('id', id).eq('user_id', userId)
Delete(T, net, kind, id, userId) ==
  LET matched == {r \in Table(T, kind) : r.id = id /\ r.user_id = userId}
      kept == CascadeDelete(T, matched)
  IN IF ~net THEN Throw("UpstreamFailure", T, 1)
     ELSE Result("ok", kept, {}, {}, T \ kept, 1)

createPatient(T, net, patient, profile, newId) ==
  IF ~profile.present THEN Throw("AuthError", T, 0)
  ELSE Insert(T, net,
              NewRow("patients", newId, patient, profile.auth_user_id, profile.clinic_id),
              TRUE)

getPatients(T, net, userId, profile, mode) ==
  IF ~profile.present THEN Result("ok", T, {}, {}, {}, 0)
  ELSE Select(T, net, Query(T, "patients", userId, profile.clinic_id, mode))

getPatientById(T, net, id, userId) ==
  LET matched == {r \in Table(T, "patients") : r.id = id /\ r.user_id = userId}
  IN IF ~net THEN Throw("UpstreamFailure", T, 1)
     ELSE IF matched = {} THEN Result("NotFound", T, {}, {}, {}, 1)
     ELSE Result("ok", T, matched, {}, {}, 1)

updatePatient(T, net, id, updates, userId) ==
  Update(T, net, "patients", id, updates, userId)

deletePatient(T, net, id, userId) ==
  Delete(T, net, "patients", id, userId)

\* .upsert({ ...patient, user_id: userId }): insert, or overwrite the row
\* that has the payload's id.
savePatient(T, net, patient, userId) ==
  LET row == NewRow("patients", patient.id, patient, userId, patient.clinic_id)
      old == {r \in Table(T, "patients") : r.id = patient.id}
  IN IF ~net \/ ~InsertAllowed(T, row) THEN Throw("UpstreamFailure", T, 1)
     ELSE Result("ok", (T \ old) \cup {row}, {}, {row}, old, 1)

getVisits(T, net, userId, profile, mode) ==
  Select(T, net, Query(T, "visits", userId, Absent, mode))

addVisit(T, net, visit, userId, profile, newId) ==
  IF ~profile.present THEN Throw("AuthError", T, 0)
  ELSE Insert(T, net, NewRow("visits", newId, visit, userId, visit.clinic_id), FALSE)

deleteVisit(T, net, visitId, userId) ==
  Delete(T, net, "visits", visitId, userId)

createExpense_Unguarded(T, net, expense, userId, profile, newId) ==
  Insert(T, net, NewRow("expenses", newId, expense, userId, expense.clinic_id), TRUE)

createExpense(T, net, expense, userId, profile, newId) ==
  IF ~profile.present THEN Throw("AuthError", T, 0)
  ELSE Insert(T, net, NewRow("expenses", newId, expense, userId, expense.clinic_id), TRUE)

getExpenses(T, net, userId, profile, mode) ==
  Select(T, net, Query(T, "expenses", userId, Absent, mode))

updateExpense(T, net, id, updates, userId) ==
  Update(T, net, "expenses", id, updates, userId)

deleteExpense(T, net, expenseId, userId) ==
  Delete(T, net, "expenses", expenseId, userId)

getAppointments(T, net, userId, mode) ==
  Select(T, net, Query(T, "appointments", userId, Absent, Absent))

createAppointment(T, net, form, userId, profile, mode, newId) ==
  IF ~profile.present THEN Throw("AuthError", T, 0)
  ELSE IF userId = Absent \/ profile.doctortype = Absent
          \/ form.start_time = NoTime \/ form.end_time = NoTime
       THEN Throw("ArgumentError", T, 0)
  ELSE Insert(T, net,
              NewRow("appointments", newId,
                     [doctortype |-> profile.doctortype, patient_id |-> form.patient_id],
                     userId, Absent),
              TRUE)

updateAppointment(T, net, id, updates, userId, mode) ==
  Update(T, net, "appointments", id, updates, userId)

deleteAppointment(T, net, id, userId, mode) ==
  Delete(T, net, "appointments", id, userId)


\* ================================================================= session
\* components/AuthProvider.tsx and components/UserProfileContext.tsx: the
\* signed-in user, the provider's profile and where its resolution stands
\* (Unresolved -> Resolving -> Resolved | Denied).

NoSession == [user |-> Absent, profile |-> NullProfile, status |-> "Unresolved"]

\* No data-access call has been made since the session or the network changed.
NoCall ==
  [handler |-> Absent, calls |-> {}, mode |-> Absent, outcome |-> Absent,
   returned |-> {}, stored |-> {}, changed |-> {}, requests |-> 0, uploads |-> 0]

\* AuthProvider.login: the user is set and the profile provider, now
\* authenticated, starts fetchProfile.
Login ==
  /\ session.user = Absent
  /\ session' = [user |-> Caller, profile |-> NullProfile, status |-> "Resolving"]
  /\ last' = NoCall
  /\ UNCHANGED <<rows, nextRowId, online>>
  /\ UNCHANGED <<queueVars, sideVars>>

\* UserProfileProvider.fetchProfile completes: the profile row is stored, or
\* an error (no user, no row, request failed) leaves the profile null.
FetchProfile ==
  /\ session.status = "Resolving"
  /\ \/ /\ online
        /\ session' = [session EXCEPT !.profile = ProfileOf(session.user),
                                      !.status = "Resolved"]
     \/ session' = [session EXCEPT !.status = "Denied"]
  /\ last' = NoCall
  /\ UNCHANGED <<rows, nextRowId, online>>
  /\ UNCHANGED <<queueVars, sideVars>>

\* AuthProvider.logout and the provider's effect on isAuthenticated = false.
Logout ==
  /\ session.user # Absent
  /\ session' = NoSession
  /\ last' = NoCall
  /\ UNCHANGED <<rows, nextRowId, online>>
  /\ UNCHANGED <<queueVars, sideVars>>

\* ============================================================ call records
Payloads == [clinic_id : Clinics \cup {Absent}, doctortype : Modes,
             patient_id : RowIds \cup {NoId}]
Patches == [clinic_id : Clinics \cup {Absent}, doctortype : Modes \cup {Absent}]
Forms == {f \in [patient_id : RowIds \cup {NoId}, start_time : {NoTime, 1},
                 end_time : {NoTime, 2}] :
            f.start_time # NoTime \/ f.end_time # NoTime}
ModeArgs == Modes \cup {Absent}

\* Two awaited calls in program order: the second runs on the tables the
\* first left, and only if the first did not throw.
AndThen(r1, r2) ==
  IF r1.outcome \notin {"ok", "NotFound"} THEN r1
  ELSE [outcome |-> r2.outcome, rows |-> r2.rows,
        returned |-> r1.returned \cup r2.returned,
        stored |-> r1.stored \cup r2.stored,
        changed |-> r1.changed \cup r2.changed,
        requests |-> r1.requests + r2.requests]

\* Calls started together (Promise.all) on the same tables: every request is
\* issued; the combination throws if one of them throws.
Together(r1, r2) ==
  [outcome |-> IF r1.outcome # "ok" THEN r1.outcome ELSE r2.outcome,
   rows |-> r1.rows,
   returned |-> IF r1.outcome = "ok" /\ r2.outcome = "ok"
                THEN r1.returned \cup r2.returned ELSE {},
   stored |-> {}, changed |-> {},
   requests |-> r1.requests + r2.requests]

\* .delete().eq('user_id', userId), and .eq('doctortype', mode) if (mode).
DeleteWhere(T, net, kind, userId, mode) ==
  LET matched == {r \in Table(T, kind) :
                    r.user_id = userId /\ (mode # Absent => r.doctortype = mode)}
      kept == CascadeDelete(T, matched)
  IN IF ~net THEN Throw("UpstreamFailure", T, 1)
     ELSE Result("ok", kept, {}, {}, T \ kept, 1)

\* resetAllData: four deletes one after the other, each awaited; the one on
\* appointments has no filter on doctortype.
resetAllData(T, net, userId, mode) ==
  LET patientsQuery == DeleteWhere(T, net, "patients", userId, mode)
      visitsQuery == DeleteWhere(patientsQuery.rows, net, "visits", userId, mode)
      expensesQuery == DeleteWhere(visitsQuery.rows, net, "expenses", userId, mode)
      appointmentsQuery ==
        DeleteWhere(expensesQuery.rows, net, "appointments", userId, Absent)
      all == AndThen(AndThen(AndThen(patientsQuery, visitsQuery), expensesQuery),
                     appointmentsQuery)
  IN [all EXCEPT !.changed = T \ all.rows]

\* The effect of a handler's run on the model's state.  facts: what is
\* recorded of the form or payload it was given; errors: the fields it
\* reported errors on.
CommitWithin(maxRows, handler, calls, mode, uploads, res, facts, errors) ==
  /\ \A r \in res.stored : r.id <= maxRows
  /\ rows' = res.rows
  /\ nextRowId' = IF \E r \in res.stored : r.id = nextRowId
                  THEN nextRowId + 1 ELSE nextRowId
  /\ last' = [handler |-> handler, calls |-> calls, mode |-> mode,
              outcome |-> res.outcome, returned |-> res.returned,
              stored |-> res.stored, changed |-> res.changed,
              requests |-> res.requests, uploads |-> uploads,
              facts |-> facts, errors |-> errors]
  /\ UNCHANGED <<session, online>>
  /\ UNCHANGED <<queueVars, sideVars>>

CommitForm(handler, calls, mode, uploads, res, facts, errors) ==
  CommitWithin(MaxRows, handler, calls, mode, uploads, res, facts, errors)

\* The effect of a call on the model's state.
Commit(handler, calls, mode, uploads, res) ==
  CommitForm(handler, calls, mode, uploads, res, {}, {})

\* ==================================================== data-access contract
\* The functions of db called directly by a signed-in caller with its own
\* user id and resolved profile (null when none is resolved); payloads, row
\* ids, patches and modes are whatever the caller supplies.

WithMode(profile, m) ==
  IF profile.present THEN [profile EXCEPT !.doctortype = m] ELSE profile

\* What is recorded of a create: the payload, when a row has been stored.
Submitted(res, payload) == IF res.stored # {} THEN {payload} ELSE {}

DbCreate ==
  /\ session.user # Absent
  /\ LET u == session.user
         p == session.profile
         Create(fn, res, payload) ==
           CommitForm(Absent, {fn}, Absent, 0, res, Submitted(res, payload), {})
     IN \/ \E payload \in Payloads :
             /\ payload.patient_id = NoId
             /\ \/ Create("createPatient",
                          createPatient(rows, online, payload, p, nextRowId), payload)
                \/ Create("createExpense",
                          createExpense(rows, online, payload, u, p, nextRowId), payload)
        \/ \E payload \in Payloads :
             Create("addVisit", addVisit(rows, online, payload, u, p, nextRowId), payload)
        \/ \E form \in Forms, m \in ModeArgs :
             Create("createAppointment",
                    createAppointment(rows, online, form, u, WithMode(p, m), m, nextRowId),
                    form)

\* The creates of db once more, for one row more than MaxRows: a patient and
\* a row that refers to it, or two rows of the two modes.
ResetRows == MaxRows + 1

DbCreateSeveral ==
  /\ session.user # Absent
  /\ LET u == session.user
         p == session.profile
         Create(fn, res) == CommitWithin(ResetRows, Absent, {fn}, Absent, 0, res, {}, {})
     IN \/ \E payload \in Payloads :
             /\ payload.clinic_id = Absent
             /\ \/ /\ payload.patient_id = NoId
                   /\ \/ Create("createPatient",
                                createPatient(rows, online, payload, p, nextRowId))
                      \/ Create("createExpense",
                                createExpense(rows, online, payload, u, p, nextRowId))
                \/ Create("addVisit", addVisit(rows, online, payload, u, p, nextRowId))
        \/ \E form \in Forms, m \in Modes :
             Create("createAppointment",
                    createAppointment(rows, online, form, u, WithMode(p, m), m, nextRowId))

\* db.resetAllData(userId, mode), as handleReset calls it.
DbResetAllData ==
  /\ session.user # Absent
  /\ \E mode \in ModeArgs :
       Commit(Absent, {"resetAllData"}, mode, 0,
              resetAllData(rows, online, session.user, mode))

DbList ==
  /\ session.user # Absent
  /\ \E kind \in Kinds, m \in ModeArgs :
       LET u == session.user
           p == session.profile
           res == CASE kind = "patients" -> getPatients(rows, online, u, p, m)
                    [] kind = "visits" -> getVisits(rows, online, u, p, m)
                    [] kind = "expenses" -> getExpenses(rows, online, u, p, m)
                    [] kind = "appointments" -> getAppointments(rows, online, u, m)
           fn == CASE kind = "patients" -> "getPatients"
                   [] kind = "visits" -> "getVisits"
                   [] kind = "expenses" -> "getExpenses"
                   [] kind = "appointments" -> "getAppointments"
       IN Commit(Absent, {fn}, m, 0, res)

DbGetById ==
  /\ session.user # Absent
  /\ \E id \in RowIds :
       Commit(Absent, {"getPatientById"}, Absent, 0,
              getPatientById(rows, online, id, session.user))

DbUpdate ==
  /\ session.user # Absent
  /\ \E kind \in {"patients", "expenses", "appointments"}, id \in RowIds, updates \in Patches :
       LET u == session.user
           res == CASE kind = "patients" -> updatePatient(rows, online, id, updates, u)
                    [] kind = "expenses" -> updateExpense(rows, online, id, updates, u)
                    [] kind = "appointments" -> updateAppointment(rows, online, id, updates, u, Absent)
           fn == CASE kind = "patients" -> "updatePatient"
                   [] kind = "expenses" -> "updateExpense"
                   [] kind = "appointments" -> "updateAppointment"
       IN Commit(Absent, {fn}, Absent, 0, res)

DbDelete ==
  /\ session.user # Absent
  /\ \E kind \in Kinds, id \in RowIds :
       LET u == session.user
           res == CASE kind = "patients" -> deletePatient(rows, online, id, u)
                    [] kind = "visits" -> deleteVisit(rows, online, id, u)
                    [] kind = "expenses" -> deleteExpense(rows, online, id, u)
                    [] kind = "appointments" -> deleteAppointment(rows, online, id, u, Absent)
           fn == CASE kind = "patients" -> "deletePatient"
                   [] kind = "visits" -> "deleteVisit"
                   [] kind = "expenses" -> "deleteExpense"
                   [] kind = "appointments" -> "deleteAppointment"
       IN Commit(Absent, {fn}, Absent, 0, res)

\* The other clinic's account stores rows through the same functions, with
\* its own user id and profile, from its own session.
OtherTenantCreate ==
  /\ nextRowId <= MaxRows
  /\ \E payload \in Payloads :
       LET u == OtherTenant
           p == [ProfileOf(OtherTenant) EXCEPT !.doctortype = payload.doctortype]
           form == [patient_id |-> payload.patient_id, start_time |-> 1, end_time |-> 2]
       IN \E r \in {createPatient(rows, TRUE, payload, p, nextRowId),
                    addVisit(rows, TRUE, payload, u, p, nextRowId),
                    createExpense(rows, TRUE, payload, u, p, nextRowId),
                    createAppointment(rows, TRUE, form, u, p, payload.doctortype, nextRowId)} :
            /\ r.outcome = "ok"
            /\ rows' = r.rows
            /\ nextRowId' = nextRowId + 1
            /\ UNCHANGED <<session, online, last>>
            /\ UNCHANGED <<queueVars, sideVars>>

\* savePatient with a full Patient: its id is that of a stored patient or a
\* fresh one.
DbSavePatient ==
  /\ session.user # Absent
  /\ \E clinicId \in Clinics \cup {Absent}, doctortype \in Modes,
        id \in {r.id : r \in Table(rows, "patients")} \cup {nextRowId} :
       Commit(Absent, {"savePatient"}, Absent, 0,
              savePatient(rows, online,
                          [id |-> id, clinic_id |-> clinicId,
                           doctortype |-> doctortype, patient_id |-> NoId],
                          session.user))


\* ============================================================ application
\* The handlers of App.tsx and the views, with the arguments they pass.

\* The lists the views hold: what the user's list calls return.
OwnRows(kind) == Query(rows, kind, session.user, Absent, Absent)

\* Nothing is being edited (editingPatient = null, ...).
NoRow ==
  [id |-> NoId, kind |-> Absent, user_id |-> Absent, clinic_id |-> Absent,
   doctortype |-> Absent, patient_id |-> NoId]

\* A handler's catch that only logs: the caller sees no failure.
Swallow(res) == [res EXCEPT !.outcome = "ok"]

\* A handler that returns before any data-access call.
NotCalled(outcome) == Throw(outcome, rows, 0)

\* App.tsx fetchData: the three lists, doctorMode in the profile position.
fetchData ==
  /\ session.user # Absent
  /\ \E doctorMode \in Modes :
       LET u == session.user
           res == Together(getPatients(rows, online, u, BareProfile(Absent), Absent),
                    Together(getExpenses(rows, online, u, BareProfile(Absent), Absent),
                             getVisits(rows, online, u, BareProfile(Absent), Absent)))
       IN Commit("fetchData", {"getPatients", "getExpenses", "getVisits"},
                 doctorMode, 0, res)

\* views/Appointments.tsx loadData.
loadDataResult(T, u, mode) ==
  Together(getAppointments(T, online, u, mode),
           getPatients(T, online, u, BareProfile(Absent), Absent))

loadData ==
  /\ session.user # Absent
  /\ \E mode \in Modes :
       Commit("loadData", {"getAppointments", "getPatients"}, mode, 0,
              loadDataResult(rows, session.user, mode))

\* App.tsx handleSavePatient: validation, optional photo upload, then
\* updatePatient (editing) or createPatient(patientData).
handleSavePatient ==
  /\ session.user # Absent
  /\ \E valid \in BOOLEAN, photoFile \in BOOLEAN, doctorMode \in Modes,
        editingPatient \in OwnRows("patients") \cup {NoRow} :
       LET u == session.user
           patientData == [clinic_id |-> Absent, doctortype |-> doctorMode,
                           patient_id |-> NoId]
       IN IF ~valid
          THEN Commit("handleSavePatient", {}, doctorMode, 0, NotCalled("ValidationFailed"))
          ELSE IF editingPatient # NoRow
          THEN Commit("handleSavePatient", {"updatePatient"}, doctorMode,
                      IF photoFile THEN 1 ELSE 0,
                      updatePatient(rows, online, editingPatient.id,
                                    [clinic_id |-> editingPatient.clinic_id,
                                     doctortype |-> doctorMode], u))
          ELSE Commit("handleSavePatient", {"createPatient"}, doctorMode,
                      IF photoFile THEN 1 ELSE 0,
                      createPatient(rows, online, patientData, NullProfile, nextRowId))

\* App.tsx refreshExpenses: errors are logged, not raised.
refreshExpenses(T, u) ==
  Swallow(getExpenses(T, online, u, BareProfile(Absent), Absent))

\* ------------------------------------------------------------ validations.ts
\* Time is counted in hours since the epoch.  A clock is what the browser
\* gives a handler: the instant (UTC) and the offset of its time zone.
DayHours == 24
ClinicClock == [utc |-> 30, offset |-> 5]
Clocks == {ClinicClock, [utc |-> 25, offset |-> -8]}

\* The calendar day of the user, and the instant a local day starts at.
LocalDay(clock) == (clock.utc + clock.offset) \div DayHours
StartOfLocalDay(day, clock) == day * DayHours - clock.offset

\* new Date('YYYY-MM-DD'): a date without a time is midnight UTC.
ParseDate(day) == day * DayHours

\* new Date('YYYY-MM-DDTHH:mm'): a date with a time and no zone is local.
ParseLocal(wall, clock) == wall - clock.offset

isFutureDate(dateString, clock) == ParseDate(dateString) > clock.utc

isPastDate(wall, clock) == ParseLocal(wall, clock) < clock.utc

\* The paths of the issues ExpenseSchema raises (category, note and
\* doctortype are always well-formed here).
ExpenseSchema(expenseData, clock) ==
  (IF expenseData.amount < 1 THEN {"amount"} ELSE {})
  \cup (IF isFutureDate(expenseData.date, clock) THEN {"date"} ELSE {})

\* The paths of the issues VisitSchema raises, by visitMode.
MaxFee == 100000

VisitSchema(visitData) ==
  IF visitData.visitMode = "quick"
  THEN (IF visitData.note = Undefined THEN {"note"} ELSE {})
       \cup (IF visitData.fee > MaxFee THEN {"fee"} ELSE {})
  ELSE (IF visitData.fee > MaxFee THEN {"fee"} ELSE {})
       \cup (IF visitData.photo_url = Undefined THEN {"photo_url"} ELSE {})

AppointmentSchema_FieldsOnly(form, clock) ==
  IF isPastDate(form.start_time, clock) THEN {"start_time"} ELSE {}

\* The paths of the issues AppointmentSchema raises.  Every field of the
\* form is a string, so no field aborts the parse and the refinement of the
\* whole object (end after start, reported on end_time) is always run.
AppointmentSchema(form, clock) ==
  (IF isPastDate(form.start_time, clock) THEN {"start_time"} ELSE {})
  \cup (IF ParseLocal(form.end_time, clock) > ParseLocal(form.start_time, clock)
        THEN {} ELSE {"end_time"})

\* validateForm: the ZodError is caught and turned into a result.
validateForm(issues) == [success |-> issues = {}, errors |-> issues]

\* The expense forms submitted: an amount, and a date so many days after
\* the user's current day.
ExpenseForms ==
  {[amount |-> 100, ahead |-> 0], [amount |-> 0, ahead |-> 0], [amount |-> 100, ahead |-> 1]}

\* views/Expenses.tsx handleSave: ExpenseSchema, the second date test
\* (against the end of the local day), then updateExpense or createExpense.
handleSave ==
  /\ session.user # Absent
  /\ \E clock \in Clocks, newExpense \in ExpenseForms, mode \in Modes,
        editingExpense \in OwnRows("expenses") \cup {NoRow} :
       LET u == session.user
           expenseData == [amount |-> newExpense.amount,
                           date |-> LocalDay(clock) + newExpense.ahead]
           issues == ExpenseSchema(expenseData, clock)
           facts == IF expenseData.date > LocalDay(clock) THEN {"future_date"} ELSE {}
           upd == updateExpense(rows, online, editingExpense.id,
                                [clinic_id |-> Absent, doctortype |-> Absent], u)
           crt == createExpense(rows, online,
                                [clinic_id |-> Absent, doctortype |-> mode,
                                 patient_id |-> NoId],
                                u, NullProfile, nextRowId)
       IN IF issues # {}
          THEN CommitForm("handleSave", {}, mode, 0, NotCalled("ValidationFailed"),
                          facts, issues)
          ELSE IF ParseDate(expenseData.date)
                    >= StartOfLocalDay(LocalDay(clock) + 1, clock)
          THEN CommitForm("handleSave", {}, mode, 0, NotCalled("ValidationFailed"),
                          facts, {})
          ELSE IF editingExpense # NoRow
          THEN CommitForm("handleSave", {"updateExpense"}, mode, 0,
                          AndThen(upd, refreshExpenses(upd.rows, u)), facts, {})
          ELSE CommitForm("handleSave", {"createExpense"}, mode, 0,
                          AndThen(crt, refreshExpenses(crt.rows, u)), facts, {})

\* views/PatientProfile.tsx handleSaveVisit: the mode-specific check, the
\* prescription upload (photo visits), VisitSchema, then addVisit.
handleSaveVisit ==
  /\ session.user # Absent
  /\ \E patient \in OwnRows("patients"), mode \in Modes,
        visitMode \in {"quick", "photo"}, note \in {"", "n"},
        fee \in {200, MaxFee + 1}, photoFile \in BOOLEAN :
       LET u == session.user
           visit == [clinic_id |-> Absent, doctortype |-> mode, patient_id |-> patient.id]
           upload == visitMode = "photo" /\ photoFile
           visitData == [visitMode |-> visitMode,
                         note |-> IF note = "" THEN Undefined ELSE note,
                         fee |-> fee,
                         photo_url |-> IF upload THEN "url" ELSE Undefined]
           issues == VisitSchema(visitData)
       IN IF (visitMode = "quick" /\ note = "") \/ (visitMode = "photo" /\ ~photoFile)
          THEN Commit("handleSaveVisit", {}, mode, 0, NotCalled("ValidationFailed"))
          ELSE IF upload /\ ~online
          THEN Commit("handleSaveVisit", {}, mode, 1, NotCalled("UpstreamFailure"))
          ELSE IF issues # {}
          THEN CommitForm("handleSaveVisit", {}, mode, IF upload THEN 1 ELSE 0,
                          NotCalled("ValidationFailed"), {}, issues)
          ELSE Commit("handleSaveVisit", {"addVisit"}, mode, IF upload THEN 1 ELSE 0,
                      addVisit(rows, online, visit, u, NullProfile, nextRowId))

\* The appointment forms submitted: a start so many hours from now and an
\* end so many hours after the start.
AppointmentForms ==
  {[startsIn |-> 2, lasts |-> 1], [startsIn |-> 2, lasts |-> 0],
   [startsIn |-> 2, lasts |-> -1], [startsIn |-> -1, lasts |-> 1]}

\* views/Appointments.tsx handleSubmit: validateForm, then updateAppointment
\* (editing) or createAppointment with { ...userProfile, doctortype: mode },
\* then loadData.
handleSubmit ==
  /\ session.user # Absent
  /\ \E formData \in AppointmentForms, mode \in Modes, pid \in RowIds,
        editingAppointment \in OwnRows("appointments") \cup {NoRow} :
       LET u == session.user
           userProfile == session.profile
           clock == ClinicClock
           start == clock.utc + clock.offset + formData.startsIn
           formToSubmit == [patient_id |-> pid, start_time |-> start,
                            end_time |-> start + formData.lasts]
           validation == validateForm(AppointmentSchema(formToSubmit, clock))
           facts == IF formToSubmit.end_time <= formToSubmit.start_time
                    THEN {"end_not_after_start"} ELSE {}
           arg == IF userProfile.present THEN [userProfile EXCEPT !.doctortype = mode]
                  ELSE BareProfile(mode)
           upd == updateAppointment(rows, online, editingAppointment.id,
                                    [clinic_id |-> Absent, doctortype |-> mode], u, mode)
           crt == createAppointment(rows, online, formToSubmit, u, arg, mode, nextRowId)
       IN IF ~validation.success
          THEN CommitForm("handleSubmit", {}, mode, 0, NotCalled("ValidationFailed"),
                          facts, validation.errors)
          ELSE IF editingAppointment # NoRow
          THEN CommitForm("handleSubmit", {"updateAppointment"}, mode, 0,
                          AndThen(upd, Swallow(loadDataResult(upd.rows, u, mode))),
                          facts, {})
          ELSE CommitForm("handleSubmit", {"createAppointment"}, mode, 0,
                          AndThen(crt, Swallow(loadDataResult(crt.rows, u, mode))),
                          facts, {})

\* ============================================================ services/cache.ts
\* The pending-operation queue in localStorage and the drain
\* (syncPendingOperations).  Every method reads and writes localStorage
\* within one turn of the event loop; a drain run yields at its awaited
\* timeout, once per operation of the snapshot it took when it started.

\* What a caller enqueues: an operation type, an entity kind and a payload.
\* The mutations made while offline are taken from this list in turn.
QueuedInputs ==
  << [type |-> "create", entity |-> "patients", data |-> "d1"],
     [type |-> "delete", entity |-> "expenses", data |-> "d2"],
     [type |-> "update", entity |-> "visits", data |-> "d3"] >>

\* hist.ops: for every operation that is in the queue or that a run in
\* progress has still to attempt, how many attempts have failed for it.
\* hist.overlapped: whether two runs were ever in progress at once.
\* Counts above MaxRetries + 2 are recorded as MaxRetries + 2.
\* hist.attempt: the most
\* recent attempt of a drain: the operation, whether the simulated call
\* succeeded, whether the attempt took the operation out of the queue,
\* whether the warning was logged, and the operation's failed attempts so
\* far; it is NoAttempt when the step just taken was not an attempt.
\* It also has the functions of db the iteration called (called) and whether
\* the operation had been synced before by another run (resynced).
MaxRetries == 3

CountFailure(failed) == IF failed < MaxRetries + 2 THEN failed + 1 ELSE failed

NewHist == [failed |-> 0, synced |-> FALSE]

NoAttempt ==
  [id |-> NoId, success |-> FALSE, removed |-> FALSE, warned |-> FALSE,
   failed |-> 0, called |-> {}, resynced |-> FALSE]

QueuedIds(ops) == {ops[j].id : j \in 1..Len(ops)}

\* The operations the runs in progress have still to attempt.
Awaited(rs) ==
  UNION { {rs[k].operations[j].id : j \in rs[k].i..Len(rs[k].operations)} :
          k \in 1..Len(rs) }

\* getPendingOperations().filter(op => op.id !== id)
removePendingOperation(ops, id) ==
  SelectSeq(ops, LAMBDA op : op.id # id)

updatePendingOperation_Lost(ops, id, retryCount) == ops

updatePendingOperation_Requeued(ops, id, retryCount) ==
  LET found == SelectSeq(ops, LAMBDA op : op.id = id)
  IN SelectSeq(ops, LAMBDA op : op.id # id)
       \o [j \in 1..Len(found) |-> [found[j] EXCEPT !.retryCount = retryCount]]

\* findIndex(op => op.id === id), then the entry is overwritten if found.
updatePendingOperation(ops, id, retryCount) ==
  [j \in 1..Len(ops) |->
     IF ops[j].id = id /\ \A k \in 1..(j - 1) : ops[k].id # id
     THEN [ops[j] EXCEPT !.retryCount = retryCount]
     ELSE ops[j]]

\* addPendingOperation: the entry is appended with retryCount 0.  At most
\* maxOps operations are ever enqueued.
Enqueue(maxOps) ==
  /\ nextOpId <= maxOps
  /\ LET operation == QueuedInputs[((nextOpId - 1) % Len(QueuedInputs)) + 1] IN
       pendingOps' = Append(pendingOps,
                            [id |-> nextOpId, type |-> operation.type,
                             entity |-> operation.entity, data |-> operation.data,
                             retryCount |-> 0])
  /\ nextOpId' = nextOpId + 1
  /\ hist' = [hist EXCEPT !.ops = Append(@, NewHist), !.attempt = NoAttempt]
  /\ UNCHANGED <<runs, online>>
  /\ UNCHANGED <<dbVars, sideVars>>

addPendingOperation == Enqueue(MaxOps)

\* syncPendingOperations up to its first await: nothing happens when offline
\* or when the queue is empty; otherwise the run holds the snapshot and waits
\* for the first operation's timeout.  runs lists the runs in progress in the
\* order in which their pending timeouts expire: every timeout has the same
\* delay, so the one set first fires first.  before is the id the next
\* addPendingOperation will hand out: the operations enqueued during the run
\* are those with that id or a later one.
StartRunAmong(maxRuns) ==
  /\ Len(runs) < maxRuns
  /\ runs' = Append(runs, [operations |-> pendingOps, i |-> 1, before |-> nextOpId])
  /\ hist' = [hist EXCEPT !.overlapped = @ \/ runs # <<>>,
                          !.attempt = NoAttempt]

StartRun == StartRunAmong(MaxRuns)

\* navigator.onLine becomes false.
GoOffline ==
  /\ online
  /\ online' = FALSE
  /\ last' = NoCall
  /\ hist' = [hist EXCEPT !.attempt = NoAttempt]
  /\ UNCHANGED <<rows, nextRowId, session, pendingOps, runs, nextOpId, sideVars>>

\* The 'online' listener of init: a drain is started.
GoOnline ==
  /\ ~online
  /\ online' = TRUE
  /\ last' = NoCall
  /\ IF pendingOps = <<>>
     THEN runs' = runs /\ hist' = [hist EXCEPT !.attempt = NoAttempt]
     ELSE StartRun
  /\ UNCHANGED <<rows, nextRowId, session, pendingOps, nextOpId, sideVars>>

\* The 30-second interval of init: a drain is started when online.
TimerTick ==
  /\ online
  /\ pendingOps # <<>>
  /\ StartRun
  /\ UNCHANGED <<online, pendingOps, nextOpId>>
  /\ UNCHANGED <<dbVars, sideVars>>

\* The same events with one operation and one run more: three runs in
\* progress at once, and an operation enqueued behind two others.
DrainOps == MaxOps + 1
DrainRuns == MaxRuns + 1

EnqueueDuringDrain == Enqueue(DrainOps)

\* The 'online' listener and the interval of init, each starting a drain.
OnlineAgain ==
  /\ ~online
  /\ online' = TRUE
  /\ last' = NoCall
  /\ pendingOps # <<>>
  /\ StartRunAmong(DrainRuns)
  /\ UNCHANGED <<rows, nextRowId, session, pendingOps, nextOpId, sideVars>>

IntervalTick ==
  /\ online
  /\ pendingOps # <<>>
  /\ StartRunAmong(DrainRuns)
  /\ UNCHANGED <<online, pendingOps, nextOpId>>
  /\ UNCHANGED <<dbVars, sideVars>>

\* "Remove if too many retries": the test reads the retryCount of the run's
\* snapshot, not the count just written.
TooManyRetries_Fresh(operation) == operation.retryCount + 1 >= MaxRetries

TooManyRetries(operation) == operation.retryCount >= MaxRetries

\* The functions of db an iteration calls for its operation, each named by
\* the type and the entity it serves: the body of the loop waits for a
\* timeout and draws a random number, and calls none.
Replayed(operation) == {}

\* One iteration of the loop of syncPendingOperations, from the end of the
\* awaited timeout: the simulated call succeeds or fails; the run then sets
\* the next operation's timeout or ends.
Attempt(success) ==
  /\ runs # <<>>
  /\ LET run == Head(runs)
         operation == run.operations[run.i]
         id == operation.id
         h == hist.ops[id]
         drop == TooManyRetries(operation)
         updated == updatePendingOperation(pendingOps, id, operation.retryCount + 1)
     IN /\ pendingOps' =
             IF success THEN removePendingOperation(pendingOps, id)
             ELSE IF drop THEN removePendingOperation(updated, id)
             ELSE updated
        /\ runs' = IF run.i = Len(run.operations) THEN Tail(runs)
                   ELSE Append(Tail(runs), [run EXCEPT !.i = @ + 1])
        /\ hist' =
             [overlapped |-> hist.overlapped,
              ops |-> [k \in DOMAIN hist.ops |->
                         IF k \notin QueuedIds(pendingOps') \cup Awaited(runs')
                         THEN NewHist
                         ELSE IF k = id /\ ~success
                         THEN [h EXCEPT !.failed = CountFailure(@)]
                         ELSE IF k = id
                         THEN [h EXCEPT !.synced = TRUE]
                         ELSE hist.ops[k]],
              attempt |-> [id |-> id,
                           success |-> success,
                           removed |-> id \in QueuedIds(pendingOps)
                                         /\ id \notin QueuedIds(pendingOps'),
                           warned |-> ~success /\ drop,
                           failed |-> IF success THEN h.failed
                                      ELSE CountFailure(h.failed),
                           called |-> Replayed(operation),
                           resynced |-> success /\ h.synced]]
  /\ UNCHANGED <<online, nextOpId>>
  /\ UNCHANGED <<dbVars, sideVars>>

RunStep == \E success \in BOOLEAN : Attempt(success)

\* ======================================================= profile resolution
\* The two resolvers, called after the provider's own first fetch: the
\* provider's fetchProfile and getUserProfile of db.ts.  The provider's
\* profile, its hasFetched flag and globalUserProfile are set together and
\* cleared together: session.profile stands for all three, hasFetched is
\* status = "Resolved".  requests counts the queries on user_profiles.
ResolveFns == {"fetchProfile", "getUserProfile"}

\* The resolutions made so far in this session, oldest first: those recorded
\* with the last call, or else the provider's first fetch alone.
Resolutions ==
  IF last.calls \cap ResolveFns # {} THEN last.history
  ELSE IF session.status = "Resolved"
  THEN << [fn |-> "fetchProfile", returned |-> {session.profile}, requests |-> 1] >>
  ELSE IF session.status = "Denied"
  THEN << [fn |-> "fetchProfile", returned |-> {}, requests |-> 0] >>
  ELSE << >>

Resolution(fn, returned, requests) ==
  [handler |-> Absent, calls |-> {fn}, mode |-> Absent, outcome |-> "ok",
   returned |-> returned, stored |-> {}, changed |-> {}, requests |-> requests,
   uploads |-> 0,
   history |-> Append(Resolutions,
                      [fn |-> fn, returned |-> returned, requests |-> requests])]

\* UserProfileProvider.fetchProfile, called again.
fetchProfile ==
  /\ session.status # "Resolving"
  /\ Len(Resolutions) < MaxResolutions
  /\ \/ /\ session.user = Absent
        /\ session' = [session EXCEPT !.profile = NullProfile]
        /\ last' = Resolution("fetchProfile", {}, 0)
     \/ /\ session.user # Absent
        /\ session.status = "Resolved"
        /\ session' = session
        /\ last' = Resolution("fetchProfile", {session.profile}, 0)
     \/ /\ session.user # Absent
        /\ session.status # "Resolved"
        /\ \/ /\ online
              /\ session' = [session EXCEPT !.profile = ProfileOf(session.user),
                                            !.status = "Resolved"]
              /\ last' = Resolution("fetchProfile", {ProfileOf(session.user)}, 1)
           \/ /\ session' = [session EXCEPT !.status = "Denied"]
              /\ last' = Resolution("fetchProfile", {}, 1)
  /\ UNCHANGED <<rows, nextRowId, online>>
  /\ UNCHANGED <<queueVars, sideVars>>

\* getUserProfile of db.ts: the cached profile if there is one; otherwise the
\* user and then the profile row are fetched, and the result is returned
\* without being kept.
getUserProfile ==
  /\ session.status # "Resolving"
  /\ Len(Resolutions) < MaxResolutions
  /\ \/ /\ session.profile.present
        /\ last' = Resolution("getUserProfile", {session.profile}, 0)
     \/ /\ ~session.profile.present
        /\ session.user = Absent
        /\ last' = Resolution("getUserProfile", {}, 0)
     \/ /\ ~session.profile.present
        /\ session.user # Absent
        /\ \/ /\ online
              /\ last' = Resolution("getUserProfile", {ProfileOf(session.user)}, 1)
           \/ last' = Resolution("getUserProfile", {}, 1)
  /\ UNCHANGED <<rows, nextRowId, session, online>>
  /\ UNCHANGED <<queueVars, sideVars>>

\* ==================================================================== Spec
\* ==================================================== OfflineCache entries
\* cache.ts 18-69.  localStorage maps item keys to texts; an item key is
\* the prefix followed by the cache key.  A cached value is an object whose
\* properties may be undefined; JSON.stringify leaves those out of the text
\* and a property read of the parsed object gives undefined for them.
MaxTime == 3
MaxTtl == 2

CACHE_PREFIX == "clinictrack_cache_"
CacheKeys == {"patients", "visits"}
Props == {"name", "phone"}
CacheValues == {[name |-> "a", phone |-> ph] : ph \in {"1", Undefined}}

JSONstringify(object) ==
  [p \in {q \in DOMAIN object : object[q] # Undefined} |-> object[p]]

JSONparse(text) == text

ReadProp(object, p) == IF p \in DOMAIN object THEN object[p] ELSE Undefined

SameValue(a, b) == \A p \in Props : ReadProp(a, p) = ReadProp(b, p)

ItemKey(key) == <<CACHE_PREFIX, key>>

getItem(store, itemKey) == IF itemKey \in DOMAIN store THEN {store[itemKey]} ELSE {}

setItem(store, itemKey, text) ==
  [k \in DOMAIN store \cup {itemKey} |-> IF k = itemKey THEN text ELSE store[k]]

removeItem(store, itemKey) == [k \in DOMAIN store \ {itemKey} |-> store[k]]

\* The entry written by set.  expiresIn = 0 stands for the argument left out
\* (and for 0 itself: both are falsy), and then expiresAt is undefined and
\* left out of the text.
CacheEntry(data, expiresIn, t) ==
  IF expiresIn # 0
  THEN [data |-> JSONstringify(data), timestamp |-> t, expiresAt |-> t + expiresIn]
  ELSE [data |-> JSONstringify(data), timestamp |-> t]

set(store, key, data, expiresIn, t) ==
  setItem(store, ItemKey(key), CacheEntry(data, expiresIn, t))

delete_Kept(store, key) == store

delete(store, key) == removeItem(store, ItemKey(key))

IsExpired(entry, t) ==
  /\ "expiresAt" \in DOMAIN entry
  /\ entry.expiresAt # 0
  /\ t > entry.expiresAt

\* get: what it returns ({} for null) and the storage it leaves.
get(store, key, t) ==
  LET item == getItem(store, ItemKey(key)) IN
  IF item = {}
  THEN [returned |-> {}, store |-> store]
  ELSE LET entry == JSONparse(CHOOSE text \in item : TRUE) IN
       IF IsExpired(entry, t)
       THEN [returned |-> {}, store |-> delete(store, key)]
       ELSE [returned |-> {entry.data}, store |-> store]

clear(store) ==
  [k \in {i \in DOMAIN store : i[1] # CACHE_PREFIX} |-> store[k]]

NoGet == [key |-> Absent, returned |-> {}, found |-> FALSE, at |-> NoTime]

CacheFrame ==
  UNCHANGED <<rows, nextRowId, session, online, last, pendingOps, runs, nextOpId, hist,
              dashVars, conf, prov, mock>>

CacheSet ==
  /\ \E key \in CacheKeys, data \in CacheValues, expiresIn \in 0..MaxTtl :
       /\ localStorage' = set(localStorage, key, data, expiresIn, now)
       /\ latestSet' = [latestSet EXCEPT
            ![key] = {[data |-> data, expiresIn |-> expiresIn, at |-> now]}]
  /\ got' = NoGet
  /\ UNCHANGED now
  /\ CacheFrame

CacheGet ==
  /\ \E key \in CacheKeys :
       LET r == get(localStorage, key, now) IN
       /\ localStorage' = r.store
       /\ got' = [key |-> key, returned |-> r.returned,
                  found |-> getItem(localStorage, ItemKey(key)) # {}, at |-> now]
  /\ UNCHANGED <<now, latestSet>>
  /\ CacheFrame

CacheDelete ==
  /\ \E key \in CacheKeys :
       /\ localStorage' = delete(localStorage, key)
       /\ latestSet' = [latestSet EXCEPT ![key] = {}]
  /\ got' = NoGet
  /\ UNCHANGED now
  /\ CacheFrame

CacheClear ==
  /\ localStorage' = clear(localStorage)
  /\ latestSet' = [key \in CacheKeys |-> {}]
  /\ got' = NoGet
  /\ UNCHANGED now
  /\ CacheFrame

\* ============================================================== dashboard
\* db.getDashboardStats (db.ts 271-383) and the dashboardStats of App.tsx
\* (96-116).  The ledger holds the rows of patients, visits and expenses in
\* the order they were stored, with the columns the aggregates read: the
\* owner, the doctor mode, the fee or amount, and created_at (visits,
\* patients) or date (expenses).  The clock counts ticks; a day has DayTicks
\* of them and the clock starts on the first day of a month.
MaxLedger == 3
DayTicks == 2
WeekDays == 7
MonthDays == 30

StartOfDay(t) == (t \div DayTicks) * DayTicks
StartOfWeek(t) == t - WeekDays * DayTicks
StartOfMonth(t) == ((t \div DayTicks) \div MonthDays) * MonthDays * DayTicks

\* What is stored: a patient, a visit with its fee, an expense with its amount.
LedgerInputs ==
  {[kind |-> "patients", doctortype |-> "GP", amount |-> 0],
   [kind |-> "visits", doctortype |-> "GP", amount |-> 500],
   [kind |-> "visits", doctortype |-> "GP", amount |-> 200],
   [kind |-> "visits", doctortype |-> "GYNO", amount |-> 500],
   [kind |-> "expenses", doctortype |-> "GP", amount |-> 100]}

RECURSIVE SumAmounts(_)
SumAmounts(entries) ==
  IF entries = << >> THEN 0 ELSE Head(entries).amount + SumAmounts(Tail(entries))

DashQuery_AnyUser(T, kind, userId, mode) ==
  LET Match(e) == e.kind = kind /\ (mode # Absent => e.doctortype = mode)
  IN SelectSeq(T, Match)

\* .from(kind).eq('user_id', userId), and .eq('doctortype', mode) if (mode).
DashQuery(T, kind, userId, mode) ==
  LET Match(e) == /\ e.kind = kind
                  /\ e.user_id = userId
                  /\ mode # Absent => e.doctortype = mode
  IN SelectSeq(T, Match)

Since(entries, from) ==
  LET Match(e) == e.created_at >= from IN SelectSeq(entries, Match)

Between(entries, from, to) ==
  LET Match(e) == e.created_at >= from /\ e.created_at < to IN SelectSeq(entries, Match)

NoStats ==
  [fn |-> Absent, mode |-> Absent, net |-> TRUE, outcome |-> Absent, patientCount |-> 0,
   visitsToday |-> 0, visitsThisWeek |-> 0, todayIncome |-> 0, monthlyIncome |-> 0,
   monthlyExpenses |-> 0, totalRevenue |-> 0, totalExpenses |-> 0, profit |-> 0]

getDashboardStats(T, net, userId, mode, t) ==
  IF ~net
  THEN [NoStats EXCEPT !.fn = "getDashboardStats", !.mode = mode, !.net = net,
                       !.outcome = "UpstreamFailure"]
  ELSE LET visits == DashQuery(T, "visits", userId, mode)
           expenses == DashQuery(T, "expenses", userId, mode)
           visitsTodayData == Between(visits, StartOfDay(t), StartOfDay(t) + DayTicks)
           monthlyIncome == SumAmounts(Since(visits, StartOfMonth(t)))
           monthlyExpenses == SumAmounts(Since(expenses, StartOfMonth(t)))
       IN [fn |-> "getDashboardStats", mode |-> mode, net |-> net, outcome |-> "ok",
           patientCount |-> Len(DashQuery(T, "patients", userId, mode)),
           visitsToday |-> Len(visitsTodayData),
           visitsThisWeek |-> Len(Since(visits, StartOfWeek(t))),
           todayIncome |-> SumAmounts(visitsTodayData),
           monthlyIncome |-> monthlyIncome,
           monthlyExpenses |-> monthlyExpenses,
           totalRevenue |-> SumAmounts(visits),
           totalExpenses |-> SumAmounts(expenses),
           profit |-> monthlyIncome - monthlyExpenses]

\* The lists App holds: the caller's rows as fetchData last loaded them.
AppList(kind) == DashQuery(SubSeq(ledger, 1, app.upTo), kind, Caller, Absent)

\* App.tsx dashboardStats, computed from those lists.
dashboardStats ==
  LET visits == AppList("visits")
      monthlyIncome == SumAmounts(Since(visits, StartOfMonth(now)))
      monthlyExpenses == SumAmounts(Since(AppList("expenses"), StartOfMonth(now)))
  IN [todayIncome |-> SumAmounts(Since(visits, StartOfDay(now))),
      visitsToday |-> Len(Since(visits, StartOfDay(now))),
      monthlyIncome |-> monthlyIncome,
      monthlyExpenses |-> monthlyExpenses,
      profit |-> monthlyIncome - monthlyExpenses,
      patientCount |-> Len(AppList("patients"))]

DashFrame ==
  UNCHANGED <<rows, nextRowId, session, online, last, pendingOps, runs, nextOpId, hist,
              cacheVars, conf, prov, mock>>

\* A create of db that succeeds: the row is stored with created_at = now()
\* (an expense with today's date).  The other clinic stores visits.
StoreRow ==
  /\ online
  /\ Len(ledger) < MaxLedger
  /\ \E u \in Users, e \in LedgerInputs :
       /\ u = OtherTenant => (e.kind = "visits" /\ e.amount = 500 /\ e.doctortype = "GP")
       /\ ledger' = Append(ledger,
            [kind |-> e.kind, user_id |-> u, doctortype |-> e.doctortype,
             amount |-> e.amount,
             created_at |-> IF e.kind = "expenses" THEN StartOfDay(now) ELSE now])
  /\ stats' = NoStats
  /\ UNCHANGED app
  /\ DashFrame

\* App.tsx fetchData (on login and on a change of mode): the lists are
\* replaced by what the backend returns; a failure is logged.
FetchAppData ==
  /\ app' = IF online THEN [loaded |-> TRUE, upTo |-> Len(ledger)] ELSE app
  /\ stats' = NoStats
  /\ UNCHANGED ledger
  /\ DashFrame

GetDashboardStats ==
  /\ \E mode \in ModeArgs :
       stats' = getDashboardStats(ledger, online, Caller, mode, now)
  /\ UNCHANGED <<ledger, app>>
  /\ DashFrame

\* =========================================================== configuration
\* services/supabase.ts and services/authService.ts read the backend URL and
\* the public key from the environment of the build.  A value is left out,
\* blank (white space only), the placeholder of the example file, set, or
\* set with white space around it (padded).
EnvValues == {Absent, "blank", "placeholder", "set", "padded"}
Envs == [url : EnvValues, key : EnvValues]

\* ' '.trim() is '', and '' is falsy as undefined is.
trim(v) == IF v = "blank" THEN Absent ELSE IF v = "padded" THEN "set" ELSE v
Truthy(v) == v # Absent
IsPlaceholder(v) == v = "placeholder"

\* supabase.ts: the values are trimmed first.
isConfigured(env) ==
  /\ Truthy(trim(env.url))
  /\ Truthy(trim(env.key))
  /\ ~IsPlaceholder(trim(env.url))
  /\ ~IsPlaceholder(trim(env.key))

supabase(env) == IF isConfigured(env) THEN "client" ELSE "null"

\* authService.ts: the values are taken as they are.
isSupabaseConfigured(env) ==
  /\ Truthy(env.url)
  /\ Truthy(env.key)
  /\ ~IsPlaceholder(env.url)
  /\ ~IsPlaceholder(env.key)

getAuthService(env) == IF isSupabaseConfigured(env) THEN "auth" ELSE "mockAuth"

\* The operations a signed-in user can start while the application holds no
\* row: the handler, the function of db it calls first, whether that function
\* is called without the profile it checks, and whether the handler catches
\* what is thrown.  None of these functions tests the client before using it.
AppCalls ==
  {[handler |-> "fetchData", fn |-> "getPatients", noProfile |-> FALSE,
    catches |-> TRUE],
   [handler |-> "refreshExpenses", fn |-> "getExpenses", noProfile |-> FALSE,
    catches |-> TRUE],
   [handler |-> "loadData", fn |-> "getAppointments", noProfile |-> FALSE,
    catches |-> TRUE],
   [handler |-> "handleSavePatient", fn |-> "createPatient", noProfile |-> TRUE,
    catches |-> TRUE],
   [handler |-> "handleSave", fn |-> "createExpense", noProfile |-> TRUE,
    catches |-> TRUE],
   [handler |-> "handleReset", fn |-> "resetAllData", noProfile |-> FALSE,
    catches |-> FALSE]}

\* What a function of db throws, if anything, given the client.
DbThrows(c, client) ==
  IF c.noProfile THEN "AuthError"
  ELSE IF client = "client" THEN Absent
  ELSE "TypeError"

\* What a function of the auth service throws, given the client.
AuthThrows(service, client) ==
  IF service = "auth" /\ client = "null" THEN "TypeError" ELSE Absent

NoOp == [handler |-> Absent, fn |-> Absent, thrown |-> Absent, handled |-> TRUE]

ConfFrame ==
  UNCHANGED <<rows, nextRowId, session, online, last, pendingOps, runs, nextOpId, hist,
              cacheVars, dashVars, prov, mock>>

\* The application is built with an environment and started.
Start ==
  /\ \E env \in Envs : conf' = [env |-> env, signedIn |-> FALSE, call |-> NoOp]
  /\ ConfFrame

\* The login form: authService.signIn; the form catches what login throws.
SignIn ==
  /\ ~conf.signedIn
  /\ LET thrown == AuthThrows(getAuthService(conf.env), supabase(conf.env))
     IN conf' = [conf EXCEPT
          !.signedIn = (thrown = Absent),
          !.call = [handler |-> "login", fn |-> "signIn", thrown |-> thrown,
                    handled |-> TRUE]]
  /\ ConfFrame

SignOut ==
  /\ conf.signedIn
  /\ LET thrown == AuthThrows(getAuthService(conf.env), supabase(conf.env))
     IN conf' = [conf EXCEPT
          !.signedIn = (thrown # Absent),
          !.call = [handler |-> "handleLogout", fn |-> "signOut", thrown |-> thrown,
                    handled |-> thrown = Absent]]
  /\ ConfFrame

\* A handler of the application runs and calls db.
AppCall ==
  /\ conf.signedIn
  /\ \E c \in AppCalls :
       LET thrown == DbThrows(c, supabase(conf.env))
       IN conf' = [conf EXCEPT
            !.call = [handler |-> c.handler, fn |-> c.fn, thrown |-> thrown,
                      handled |-> (thrown = Absent \/ c.catches)]]
  /\ ConfFrame

\* ======================================================= profile provider
\* components/UserProfileContext.tsx 36-102 and getUserProfile of db.ts
\* (10-38), await by await.  A fetch in flight is a call of fetchProfile or
\* of getUserProfile that is suspended at an await: before the request for
\* the current user ("getUser"), before the query on user_profiles
\* ("select"), or with that query sent and its answer pending ("response").
\* The profile row of the signed-in user is known by its version, which an
\* administrator may change.  A render is committed between two events, so
\* that a function called by an event closes over the state as it stands.
MaxFetches == 2
MaxVersions == 2

Versions == 1..MaxVersions

\* The last event: its name; for a call that started, the hasFetched it saw
\* and whether it went on to the requests; for a call that ended, who made
\* it, whether it had joined another, its requests and what it gave back.
NoOperation ==
  [name |-> Absent, by |-> Absent, hadFetched |-> FALSE, started |-> FALSE,
   joined |-> FALSE, requests |-> 0, returned |-> {}]

\* A call that starts now; it has joined an earlier one if a call of this
\* session is still in flight.
NewFetch(by) ==
  [by |-> by, pc |-> "getUser", user |-> Absent, data |-> {},
   joined |-> \E i \in DOMAIN prov.fetches : ~prov.fetches[i].stale,
   requests |-> 0, stale |-> FALSE]

\* fetchProfile as called with the values isAuthenticated and hasFetched of
\* the render that made it (lines 42-57): what it sets before its first
\* await, and whether it goes on to the requests.
fetchProfileStart(p, isAuthenticated, hasFetched, by) ==
  IF ~isAuthenticated
  THEN [p EXCEPT !.profile = {}, !.hasFetched = FALSE]
  ELSE IF hasFetched THEN p
  ELSE [p EXCEPT !.fetches = Append(@, NewFetch(by))]

Started(p) == Len(p.fetches) > Len(prov.fetches)

Without(fetches, i) ==
  [j \in 1..(Len(fetches) - 1) |-> IF j < i THEN fetches[j] ELSE fetches[j + 1]]

ProvFrame ==
  UNCHANGED <<rows, nextRowId, session, last, pendingOps, runs, nextOpId, hist,
              cacheVars, dashVars, conf, mock>>

\* onAuthStateChange with a user: isAuthenticated becomes true and the effect
\* (93-95) calls fetchProfile.
SignedIn ==
  /\ ~prov.isAuthenticated
  /\ Len(prov.fetches) < MaxFetches
  /\ LET p == fetchProfileStart([prov EXCEPT !.isAuthenticated = TRUE, !.authUser = Caller],
                                TRUE, prov.hasFetched, "fetchProfile")
     IN prov' = [p EXCEPT !.op = [NoOperation EXCEPT !.name = "signedIn",
                                                    !.hadFetched = prov.hasFetched,
                                                    !.started = Started(p)]]
  /\ UNCHANGED online
  /\ ProvFrame

\* onAuthStateChange without a user: the effect (96-101) clears the profile,
\* globalUserProfile and hasFetched.  The calls in flight go on.
SignedOut ==
  /\ prov.isAuthenticated
  /\ prov' = [prov EXCEPT
       !.isAuthenticated = FALSE, !.authUser = Absent,
       !.profile = {}, !.globalUserProfile = {}, !.hasFetched = FALSE,
       !.fetches = [i \in DOMAIN @ |-> [@[i] EXCEPT !.stale = TRUE]],
       !.op = [NoOperation EXCEPT !.name = "signedOut"]]
  /\ UNCHANGED online
  /\ ProvFrame

\* refetchProfile (88-91): setHasFetched(false) is scheduled, and the
\* fetchProfile of the same render is called, which still sees the
\* hasFetched of that render.
refetchProfile ==
  /\ Len(prov.fetches) < MaxFetches
  /\ LET p == fetchProfileStart(prov, prov.isAuthenticated, prov.hasFetched, "refetchProfile")
     IN prov' = [p EXCEPT !.hasFetched = FALSE,
                          !.op = [NoOperation EXCEPT !.name = "refetchProfile",
                                                     !.hadFetched = prov.hasFetched,
                                                     !.started = Started(p)]]
  /\ UNCHANGED online
  /\ ProvFrame

\* getUserProfile (db.ts 10-18): the global profile if there is one.
getUserProfileStart ==
  /\ Len(prov.fetches) < MaxFetches
  /\ prov' = IF prov.globalUserProfile # {}
             THEN [prov EXCEPT !.op = [NoOperation EXCEPT !.name = "getUserProfile",
                                                          !.returned = prov.globalUserProfile]]
             ELSE [prov EXCEPT !.fetches = Append(@, NewFetch("getUserProfile")),
                               !.op = [NoOperation EXCEPT !.name = "getUserProfile",
                                                          !.started = TRUE]]
  /\ UNCHANGED online
  /\ ProvFrame

\* What a call that ends leaves: fetchProfile stores a profile it fetched
\* (75-77) and keeps the state on an error (79-85); getUserProfile returns
\* what it fetched and stores nothing.
Completed(p, i, data) ==
  LET f == p.fetches[i]
      q == [p EXCEPT !.fetches = Without(@, i),
                     !.op = [NoOperation EXCEPT !.name = "completed", !.by = f.by,
                                                !.joined = f.joined,
                                                !.requests = f.requests,
                                                !.returned = data]]
  IN IF f.by = "getUserProfile" \/ data = {} THEN q
     ELSE [q EXCEPT !.profile = data, !.globalUserProfile = data, !.hasFetched = TRUE]

\* await supabase.auth.getUser(): the user of the current session, or an
\* error when there is none or the request fails.
AwaitGetUser ==
  /\ \E i \in DOMAIN prov.fetches :
       /\ prov.fetches[i].pc = "getUser"
       /\ LET p == [prov EXCEPT !.fetches[i].requests = @ + 1] IN
          IF online /\ prov.authUser # Absent
          THEN prov' = [p EXCEPT !.fetches[i].pc = "select",
                                 !.fetches[i].user = prov.authUser,
                                 !.op = NoOperation]
          ELSE prov' = Completed(p, i, {})
  /\ UNCHANGED online
  /\ ProvFrame

\* The query on user_profiles is sent: it reads the row as it is now.  Once
\* the user has signed out the backend may or may not still answer it.
AwaitSelect ==
  /\ \E i \in DOMAIN prov.fetches, answered \in BOOLEAN :
       /\ prov.fetches[i].pc = "select"
       /\ answered => online
       /\ ~answered => (~online \/ prov.authUser # prov.fetches[i].user)
       /\ prov' = [prov EXCEPT !.fetches[i].pc = "response",
                               !.fetches[i].requests = @ + 1,
                               !.fetches[i].data = IF answered THEN {prov.row} ELSE {},
                               !.op = NoOperation]
  /\ UNCHANGED online
  /\ ProvFrame

\* The answer arrives and the call runs to its end.
AwaitResponse ==
  /\ \E i \in DOMAIN prov.fetches :
       /\ prov.fetches[i].pc = "response"
       /\ prov' = Completed(prov, i, prov.fetches[i].data)
  /\ UNCHANGED online
  /\ ProvFrame

\* The profile row is changed in the backend (a new role, a new clinic).
ProfileRowChanged ==
  /\ prov.row < MaxVersions
  /\ prov' = [prov EXCEPT !.row = @ + 1, !.op = NoOperation]
  /\ UNCHANGED online
  /\ ProvFrame

\* navigator.onLine changes.
NetworkChange ==
  /\ online' = ~online
  /\ prov' = [prov EXCEPT !.op = NoOperation]
  /\ ProvFrame


\* =============================================================== mock auth
\* The mock auth service (App.tsx 656-722): users is the list of registered
\* accounts, currentSession the signed-in user if any.  Math.random() gives
\* createMockUser an id that nothing determines: any of MockIds.
MaxMockIds == 2

MockIds == 1..MaxMockIds
Emails == {"a@clinic", "b@clinic"}
Passwords == {"p", "q"}

createMockUser(email, id) == [id |-> id, email |-> email]

\* users.find(...): the first account that passes the test, if any.
Find(users, Test(_)) ==
  LET found == SelectSeq(users, Test)
  IN IF found = << >> THEN {} ELSE {Head(found)}

NoAuthCall == [fn |-> Absent, email |-> Absent, user |-> {}, error |-> Absent]

MockFrame ==
  UNCHANGED <<rows, nextRowId, session, online, last, pendingOps, runs, nextOpId, hist,
              cacheVars, dashVars, conf, prov>>

mockSignUp ==
  /\ \E email \in Emails, password \in Passwords, id \in MockIds :
       LET existingUser == Find(mock.users, LAMBDA u : u.email = email)
           mockUser == createMockUser(email, id)
       IN IF existingUser # {}
          THEN mock' = [mock EXCEPT
                 !.call = [fn |-> "signUp", email |-> email, user |-> {},
                           error |-> "User already registered"]]
          ELSE mock' = [users |-> Append(mock.users,
                                         [id |-> mockUser.id, email |-> email,
                                          password |-> password]),
                        currentSession |-> {mockUser},
                        call |-> [fn |-> "signUp", email |-> email, user |-> {mockUser},
                                  error |-> Absent]]
  /\ MockFrame

mockSignIn ==
  /\ \E email \in Emails, password \in Passwords, id \in MockIds :
       LET user == Find(mock.users, LAMBDA u : u.email = email /\ u.password = password)
           mockUser == createMockUser(email, id)
       IN IF user = {}
          THEN mock' = [mock EXCEPT
                 !.call = [fn |-> "signIn", email |-> email, user |-> {},
                           error |-> "Invalid login credentials"]]
          ELSE mock' = [mock EXCEPT
                 !.currentSession = {mockUser},
                 !.call = [fn |-> "signIn", email |-> email, user |-> {mockUser},
                           error |-> Absent]]
  /\ MockFrame

mockSignOut ==
  /\ mock' = [mock EXCEPT !.currentSession = {},
                          !.call = [NoAuthCall EXCEPT !.fn = "signOut"]]
  /\ MockFrame


\* Time passes.
ClockTick ==
  /\ now < MaxTime
  /\ now' = now + 1
  /\ got' = NoGet
  /\ stats' = NoStats
  /\ UNCHANGED <<localStorage, latestSet, ledger, app, conf, prov, mock>>
  /\ UNCHANGED <<rows, nextRowId, session, online, last, pendingOps, runs, nextOpId, hist>>


Init ==
  /\ rows = {}
  /\ nextRowId = 1
  /\ session = NoSession
  /\ online = TRUE
  /\ last = NoCall
  /\ pendingOps = <<>>
  /\ runs = <<>>
  /\ nextOpId = 1
  /\ hist = [ops |-> <<>>, overlapped |-> FALSE, attempt |-> NoAttempt]
  /\ localStorage = << >>
  /\ now = 1
  /\ got = NoGet
  /\ latestSet = [key \in CacheKeys |-> {}]
  /\ ledger = << >>
  /\ app = [loaded |-> FALSE, upTo |-> 0]
  /\ stats = NoStats
  /\ conf = [env |-> [url |-> "set", key |-> "set"], signedIn |-> FALSE, call |-> NoOp]
  /\ prov = [isAuthenticated |-> FALSE, authUser |-> Absent, profile |-> {},
             hasFetched |-> FALSE, globalUserProfile |-> {}, fetches |-> << >>,
             row |-> 1, op |-> NoOperation]
  /\ mock = [users |-> << >>, currentSession |-> {}, call |-> NoAuthCall]

Next ==
  \/ Login
  \/ FetchProfile
  \/ Logout
  \/ DbCreate
  \/ DbList
  \/ DbGetById
  \/ DbUpdate
  \/ DbDelete
  \/ DbSavePatient
  \/ OtherTenantCreate
  \/ GoOffline
  \/ GoOnline

Spec == Init /\ [][Next]_vars


\* ================================================================= SpecApp
\* The handlers of the application over the same tables; rows come into the
\* tables through the create functions of the data-access module.
NextApp ==
  \/ Login
  \/ FetchProfile
  \/ Logout
  \/ DbCreate
  \/ OtherTenantCreate
  \/ fetchData
  \/ loadData
  \/ handleSavePatient
  \/ handleSave
  \/ handleSaveVisit
  \/ handleSubmit
  \/ GoOffline
  \/ GoOnline

SpecApp == Init /\ [][NextApp]_vars


\* =============================================================== SpecQueue
NextQueue ==
  \/ addPendingOperation
  \/ GoOffline
  \/ GoOnline
  \/ TimerTick
  \/ RunStep

SpecQueue == Init /\ [][NextQueue]_vars

\* The event loop runs every callback that is due: a timeout that has
\* expired, the interval, and the 'online' event of a network that comes back.
LiveQueue ==
  /\ SpecQueue
  /\ WF_vars(RunStep)
  /\ WF_vars(TimerTick)
  /\ WF_vars(GoOnline)


\* =============================================================== SpecDrain
NextDrain ==
  \/ EnqueueDuringDrain
  \/ GoOffline
  \/ OnlineAgain
  \/ IntervalTick
  \/ RunStep

SpecDrain == Init /\ [][NextDrain]_vars


\* ============================================================= SpecProfile
NextProfile ==
  \/ Login
  \/ FetchProfile
  \/ Logout
  \/ fetchProfile
  \/ getUserProfile
  \/ GoOffline
  \/ GoOnline

SpecProfile == Init /\ [][NextProfile]_vars


\* =============================================================== SpecReset
NextReset ==
  \/ Login
  \/ FetchProfile
  \/ Logout
  \/ DbCreateSeveral
  \/ DbResetAllData
  \/ GoOffline
  \/ GoOnline

SpecReset == Init /\ [][NextReset]_vars


\* ================================================================ SpecMock
NextMock ==
  \/ mockSignUp
  \/ mockSignIn
  \/ mockSignOut

SpecMock == Init /\ [][NextMock]_vars


\* ============================================================ SpecProvider
NextProvider ==
  \/ SignedIn
  \/ SignedOut
  \/ refetchProfile
  \/ getUserProfileStart
  \/ AwaitGetUser
  \/ AwaitSelect
  \/ AwaitResponse
  \/ ProfileRowChanged
  \/ NetworkChange

SpecProvider == Init /\ [][NextProvider]_vars


\* =============================================================== SpecCache
NextCache ==
  \/ CacheSet
  \/ CacheGet
  \/ CacheDelete
  \/ CacheClear
  \/ ClockTick

SpecCache == Init /\ [][NextCache]_vars


\* ================================================================ SpecDash
NextDash ==
  \/ StoreRow
  \/ FetchAppData
  \/ GetDashboardStats
  \/ ClockTick
  \/ GoOffline
  \/ GoOnline

SpecDash == Init /\ [][NextDash]_vars


\* ============================================================== SpecConfig
NextConfig ==
  \/ Start
  \/ SignIn
  \/ SignOut
  \/ AppCall

SpecConfig == Init /\ [][NextConfig]_vars


\* ================================================================== claims
CreateFns == {"createPatient", "addVisit", "createExpense", "createAppointment"}
ListFns == {"getPatients", "getVisits", "getExpenses", "getAppointments"}
UpdateFns == {"updatePatient", "updateExpense", "updateAppointment"}
DeleteFns == {"deletePatient", "deleteVisit", "deleteExpense", "deleteAppointment"}
WriteFns == CreateFns \cup UpdateFns \cup DeleteFns \cup {"savePatient"}
SaveHandlers == {"handleSavePatient", "handleSave", "handleSaveVisit", "handleSubmit"}

Resolved == session.status = "Resolved"
Denied == session.status = "Denied"
DirectCall == last.handler = Absent /\ last.calls # {}
OtherClinic == ProfileOf(OtherTenant).clinic_id

\* C1: a caller whose profile is scoped to one clinic never gets back, and
\* never overwrites or deletes, a row of the other clinic through a read,
\* update, upsert or delete, even when it supplies that row's id.
C1_NoCrossClinicAccess ==
  (Resolved /\ DirectCall /\ last.calls \cap CreateFns = {})
    => /\ \A r \in last.changed : r.clinic_id # OtherClinic
       /\ last.calls \cap (UpdateFns \cup {"savePatient"}) = {} =>
            \A r \in last.returned : r.clinic_id # OtherClinic

\* C2: the row a successful create stores carries the clinic_id and the
\* identity of the caller's resolved profile, whatever the payload or the
\* arguments said.
C2_CreateStampsProfile ==
  (Resolved /\ last.calls \cap CreateFns # {} /\ last.outcome = "ok")
    => \A r \in last.stored :
         /\ r.clinic_id = session.profile.clinic_id
         /\ r.user_id \in {session.profile.id, session.profile.auth_user_id}

C4_AppCreateProceeds ==
  (Resolved /\ last.handler \in SaveHandlers /\ last.calls \cap CreateFns # {})
    => (last.outcome # "AuthError" /\ last.requests >= 1)

\* C5: in a Denied session every write fails at once with the authorization
\* error and every list returns an empty result without an error.
C5_DeniedSession ==
  (Denied /\ DirectCall)
    => /\ last.calls \cap WriteFns # {} =>
            (last.outcome = "AuthError" /\ last.requests = 0)
       /\ last.calls \cap ListFns # {} =>
            (last.outcome = "ok" /\ last.returned = {})

\* C6: every row a list call returns has the clinic_id of the caller's
\* resolved profile.
C6_ListWithinClinic ==
  (Resolved /\ last.calls \cap ListFns # {} /\ last.outcome = "ok")
    => \A r \in last.returned : r.clinic_id = session.profile.clinic_id

\* C7: a list requested for a doctor mode returns only rows tagged with that
\* mode, from the data-access module and from the application's views.
C7_ListWithinMode ==
  (last.calls \cap ListFns # {} /\ last.mode # Absent /\ last.outcome = "ok")
    => \A r \in last.returned : r.doctortype = last.mode

\* C10: a mutation attempted while offline ends as OfflineQueued and is in
\* the pending queue with its type, entity, payload and retryCount 0.
C10_OfflineMutationQueued ==
  (~online /\ last.calls \cap WriteFns # {} /\ last.requests >= 1)
    => /\ last.outcome = "OfflineQueued"
       /\ \E j \in 1..Len(pendingOps) : pendingOps[j].retryCount = 0


\* ------------------------------------------------------ pending operations
Queued(id) == id \in QueuedIds(pendingOps)
StoredRetryCount(id) ==
  LET j == CHOOSE j \in 1..Len(pendingOps) : pendingOps[j].id = id
  IN pendingOps[j].retryCount
Dropped == ~hist.attempt.success /\ hist.attempt.removed

C9_EventuallyRemoved ==
  \A id \in 1..MaxOps : []<>(~Queued(id))

C9_Witness ==
  /\ hist.attempt.removed
  /\ online
  /\ pendingOps = <<>>
  /\ runs = <<>>


\* ------------------------------------------------------ profile resolution
\* C11: once a resolution of the session has returned a profile, every later
\* resolution with no logout in between returns the same profile, and the two
\* together have asked the backend at most once.
C11_ResolveOnce ==
  last.calls \cap ResolveFns # {} =>
    \A i \in DOMAIN last.history : \A j \in DOMAIN last.history :
      (i < j /\ last.history[i].returned # {}) =>
        /\ last.history[j].returned = last.history[i].returned
        /\ last.history[i].requests + last.history[j].requests <= 1


\* An entry's expiry is the time of its set plus the time to live it was set
\* with; an entry set without a time to live has none.
PastExpiry(l, t) == l.expiresIn # 0 /\ t > l.at + l.expiresIn

\* C12: a get of a key returns the value of the latest set of that key while
\* the time is not past the entry's expiry; past it, the get returns null and
\* the entry is gone from the storage, so that a later get returns null too.
C12_GetWithinExpiry ==
  got.key \in CacheKeys =>
    \A l \in latestSet[got.key] :
      IF PastExpiry(l, got.at)
      THEN got.returned = {} /\ ItemKey(got.key) \notin DOMAIN localStorage
      ELSE \E v \in got.returned : SameValue(v, l.data)

\* A get that found nothing because an earlier get removed the expired entry.
C12_Witness ==
  /\ got.key \in CacheKeys
  /\ ~got.found
  /\ got.returned = {}
  /\ \E l \in latestSet[got.key] : PastExpiry(l, got.at)


\* C13: a save handler whose form fails validation makes no data-access call
\* at all, neither an entity write nor a media upload.
C13_NoCallOnInvalidForm ==
  (last.handler \in SaveHandlers /\ last.outcome = "ValidationFailed") =>
    last.calls = {} /\ last.uploads = 0

\* C14: an expense form dated after the user's current day ends in a
\* validation failure with an error on 'date', and neither createExpense nor
\* updateExpense is called.
C14_FutureExpenseRejected ==
  (last.handler = "handleSave" /\ "future_date" \in last.facts) =>
    /\ last.outcome = "ValidationFailed"
    /\ "date" \in last.errors
    /\ last.calls \cap {"createExpense", "updateExpense"} = {}

\* C15: an appointment form whose end_time is not after its start_time ends
\* in a validation failure with an error on 'end_time', and neither
\* createAppointment nor updateAppointment is called.
C15_EndNotAfterStartRejected ==
  (last.handler = "handleSubmit" /\ "end_not_after_start" \in last.facts) =>
    /\ last.outcome = "ValidationFailed"
    /\ "end_time" \in last.errors
    /\ last.calls \cap {"createAppointment", "updateAppointment"} = {}
    /\ last.requests = 0

\* A submitted appointment that ends when it starts or before.
C15_Witness ==
  /\ last.handler = "handleSubmit"
  /\ "end_not_after_start" \in last.facts
  /\ last.errors = {"end_time"}


\* ---------------------------------------------------------------- dashboard
CallerHasNoRows == \A i \in DOMAIN ledger : ledger[i].user_id # Caller

\* The caller's visits created during the current day, in a mode if one is asked.
TodayVisits(mode) ==
  Between(DashQuery(ledger, "visits", Caller, mode),
          StartOfDay(now), StartOfDay(now) + DayTicks)

\* C16: for a caller who has no patient, visit or expense, getDashboardStats
\* fails only when its requests cannot reach the backend, and otherwise returns 0 in
\* every numeric field.
C16_EmptyDashboardIsZero ==
  (stats.fn = "getDashboardStats" /\ CallerHasNoRows) =>
    /\ stats.outcome = "ok" <=> stats.net
    /\ stats.outcome = "ok" =>
         /\ stats.patientCount = 0 /\ stats.visitsToday = 0
         /\ stats.visitsThisWeek = 0 /\ stats.todayIncome = 0
         /\ stats.monthlyIncome = 0 /\ stats.monthlyExpenses = 0
         /\ stats.totalRevenue = 0 /\ stats.totalExpenses = 0
         /\ stats.profit = 0

\* The statistics of a caller with no rows, in a backend that holds rows of
\* the other clinic.
C16_Witness ==
  /\ stats.fn = "getDashboardStats"
  /\ stats.outcome = "ok"
  /\ CallerHasNoRows
  /\ ledger # << >>

ListNow(kind) ==
  LET u == session.user
      p == session.profile
  IN CASE kind = "patients" -> getPatients(rows, TRUE, u, p, Absent)
       [] kind = "visits" -> getVisits(rows, TRUE, u, p, Absent)
       [] kind = "expenses" -> getExpenses(rows, TRUE, u, p, Absent)
       [] kind = "appointments" -> getAppointments(rows, TRUE, u, Absent)

\* The columns of a stored row that the payload of its create submitted.
SubmittedPreserved(r, payload) ==
  /\ r.kind \in {"patients", "visits", "expenses"} => r.doctortype = payload.doctortype
  /\ r.kind \in {"visits", "appointments"} => r.patient_id = payload.patient_id
  /\ r.kind \in {"visits", "expenses"} => r.clinic_id = payload.clinic_id

NotConfigured ==
  \/ conf.env.url \in {Absent, "placeholder"}
  \/ conf.env.key \in {Absent, "placeholder"}

\* C19: when the URL or the key is left out or a placeholder, the mock auth
\* service is the one selected, and no operation ends in an error that the
\* null client caused and that nothing handles.
C19_FallbackDoesNotFail ==
  NotConfigured =>
    /\ getAuthService(conf.env) = "mockAuth"
    /\ supabase(conf.env) = "null"
    /\ conf.call.thrown = "TypeError" => conf.call.handled

\* ------------------------------------------------------------- by-id reads
\* An id that no row has.
MissingId == MaxRows + 1

\* The patients stored under an id that lie outside a clinic.
OutsideClinic(id, clinicId) ==
  {r \in Table(rows, "patients") : r.id = id /\ r.clinic_id # clinicId}

\* C20: a by-id read of a patient that exists outside the caller's clinic
\* gives what a by-id read of an id that no row has gives: nothing is
\* returned and the outcome is the same, so the result does not tell whether
\* the row exists.
C20_OutOfScopeReadsAsMissing ==
  (Resolved /\ DirectCall /\ last.calls = {"getPatientById"}) =>
    \A id \in RowIds :
      OutsideClinic(id, session.profile.clinic_id) # {} =>
        LET found == getPatientById(rows, online, id, session.user)
            missing == getPatientById(rows, online, MissingId, session.user)
        IN /\ found.outcome = missing.outcome
           /\ found.returned = missing.returned
           /\ found.returned = {}

\* ------------------------------------------------------- profile provider
\* C21: a resolution requested while another one of the same session is in
\* flight is coalesced with it: it issues no backend request of its own.
C21_OverlappingResolutionsCoalesced ==
  /\ \A i \in DOMAIN prov.fetches :
       prov.fetches[i].joined => prov.fetches[i].requests = 0
  /\ (prov.op.name = "completed" /\ prov.op.joined) => prov.op.requests = 0

\* C22: whenever the session is unauthenticated, the provider's profile and
\* globalUserProfile are null, also when a fetch that started before the
\* logout ends after it.
C22_NoProfileWhenSignedOut ==
  ~prov.isAuthenticated => (prov.profile = {} /\ prov.globalUserProfile = {})

\* C23: refetchProfile in an authenticated session whose profile was already
\* fetched issues a new fetch, and when that fetch has brought a profile the
\* provider's profile and globalUserProfile are that profile.
C23_RefetchInvalidates ==
  /\ (prov.op.name = "refetchProfile" /\ prov.isAuthenticated /\ prov.op.hadFetched)
       => prov.op.started
  /\ (prov.op.name = "completed" /\ prov.op.by = "refetchProfile" /\ prov.op.returned # {})
       => (prov.profile = prov.op.returned /\ prov.globalUserProfile = prov.op.returned)

\* ---------------------------------------------------------------- drains
\* The operation an attempt was made for, as it was enqueued.
Enqueued(id) == QueuedInputs[((id - 1) % Len(QueuedInputs)) + 1]

\* C24: an attempt of a drain calls the data-access function that matches the
\* operation's type and entity, and the operation is removed as synced only
\* if that call was made and succeeded.
C24_ReplayCallsDataAccess ==
  hist.attempt.id # NoId =>
    /\ <<Enqueued(hist.attempt.id).type, Enqueued(hist.attempt.id).entity>>
         \in hist.attempt.called
    /\ (hist.attempt.removed /\ ~hist.attempt.warned) => hist.attempt.success

\* The ids of a list of operations are in the order of their enqueueing:
\* addPendingOperation hands out ids in increasing order.
InEnqueueOrder(ops) ==
  \A j, k \in 1..Len(ops) : j < k => ops[j].id < ops[k].id

\* C25: the list a drain run goes through, from its front to its end, is in
\* the order of enqueueing, so the operations it has attempted all precede
\* those it has still to attempt; and the queue stays in that order, so that
\* an operation that failed and is still queued keeps its place among the
\* others.
C25_DrainInEnqueueOrder ==
  /\ InEnqueueOrder(pendingOps)
  /\ \A r \in 1..Len(runs) :
       /\ InEnqueueOrder(runs[r].operations)
       /\ runs[r].i \in 1..Len(runs[r].operations)
       /\ \A j \in 1..Len(pendingOps) :
            \A k \in runs[r].i..Len(runs[r].operations) :
              pendingOps[j].id = runs[r].operations[k].id =>
                \A l \in 1..(j - 1) :
                  \/ pendingOps[l].id < runs[r].operations[runs[r].i].id
                  \/ \E m \in runs[r].i..(k - 1) :
                       runs[r].operations[m].id = pendingOps[l].id

\* An operation has failed and is still queued, ahead of a later one.
C25_Witness ==
  /\ hist.attempt.id # NoId
  /\ ~hist.attempt.success
  /\ \E j, k \in 1..Len(pendingOps) :
       /\ j < k
       /\ pendingOps[j].id = hist.attempt.id
       /\ pendingOps[j].retryCount > 0

\* C26: over all drain runs, overlapping ones included, no operation is
\* synced successfully a second time, and an operation in the queue has a
\* stored retryCount equal to the number of its failed attempts so far.
C26_SyncedOnceAndCounted ==
  /\ ~hist.attempt.resynced
  /\ \A id \in DOMAIN hist.ops :
       Queued(id) =>
         (hist.ops[id].failed <= MaxRetries + 1 =>
            StoredRetryCount(id) = hist.ops[id].failed)

\* The operation is in the list as it was enqueued, with retryCount 0.
Untouched(ops, id) ==
  \E j \in 1..Len(ops) :
    /\ ops[j].id = id
    /\ ops[j].retryCount = 0
    /\ ops[j].type = Enqueued(id).type
    /\ ops[j].entity = Enqueued(id).entity
    /\ ops[j].data = Enqueued(id).data

\* C27: an operation enqueued while a drain run is in progress is in the
\* queue, as it was enqueued and with retryCount 0, after every step taken
\* while that run is in progress, the step that ends the run included.
C27_EnqueuedDuringDrainKept ==
  [][\A r \in 1..Len(runs) :
       \A id \in runs[r].before..(nextOpId - 1) : Untouched(pendingOps', id)]_vars

\* -------------------------------------------------- configuration checks
\* C28: for every URL and key, authService.ts and supabase.ts decide alike
\* whether the backend is configured, so the hosted auth service is never
\* the one selected while the client is null.
C28_ChecksAgree ==
  /\ isSupabaseConfigured(conf.env) <=> isConfigured(conf.env)
  /\ ~(getAuthService(conf.env) = "auth" /\ supabase(conf.env) = "null")
  /\ conf.call.fn \in {"signIn", "signOut"} => conf.call.thrown = Absent

\* --------------------------------------------------------------- mock auth
\* The id given to the account of an email at its signup.
RegisteredId(email) ==
  {u.id : u \in {mock.users[j] : j \in 1..Len(mock.users)} \cap
                [id : MockIds, email : {email}, password : Passwords]}

\* C29: a sign-in of the mock auth service that succeeds gives a session
\* whose user id is the id the account got at signup.
C29_SameIdAcrossSignIns ==
  (mock.call.fn = "signIn" /\ mock.call.error = Absent) =>
    /\ mock.call.user # {}
    /\ \A u \in mock.call.user : {u.id} = RegisteredId(mock.call.email)
    /\ mock.currentSession = mock.call.user

\* ------------------------------------------------------------------ reset
\* C30: resetAllData called with a doctor mode deletes only rows of the
\* caller tagged with that mode: every row it removes from the tables, by
\* its deletes or by their cascade, has that mode.
C30_ResetKeepsOtherMode ==
  (last.calls = {"resetAllData"} /\ last.mode # Absent) =>
    \A r \in last.changed : r.user_id = session.user /\ r.doctortype = last.mode

====
